---- MODULE Spec2Model ----
(***************************************************************************)
(* The game loop of src/main.py (Game.run) as a state machine.  One step   *)
(* of the model is one iteration of the `while self.running` loop: the     *)
(* static objects scroll and respawn, the car moves, its bullets move and  *)
(* are culled, a bullet may be fired, bullets hit opponents, fuel tanks    *)
(* are collected, the reset key is handled and the collision with an       *)
(* opponent is checked, in the order of the source.                        *)
(*                                                                         *)
(* Rendering (blit, fill, flip, fonts) has no effect on the state and is   *)
(* left out, and so is the Road, whose y is only read by Road.draw.  The   *)
(* QUIT/ESC event only ends the loop after the iteration has run, and is   *)
(* not modelled.  Random draws (random.randrange) are nondeterministic     *)
(* choices over the whole range of the call.                               *)
(***************************************************************************)
EXTENDS Integers, Sequences, FiniteSets

\* ------------------------------------------------------------------------
\* Program constants (src/main.py)
MAX_SPEED == 13
GAME_SPEED == 2
CAR_SPEED == 5
fire_rate == 40
BOTTOM_MARGIN == 20
BULLET_EXTRA_SPEED == 5
FUEL_SCORE == 1
HIT_SCORE == 2
SPEED_UP_EVERY == 10

\* ------------------------------------------------------------------------
\* Bounds of the model.  The window is the constructor's window_width and
\* window_height, scaled down (the window is as high as the car and its
\* bottom margin need); the sizes are the sizes of the images, which the
\* program reads from files.
ScreenW == 2
ScreenH == 21
\* The height of the window in which the car starts far enough down to have
\* two bullets on their way: 2 * (CAR_SPEED + BULLET_EXTRA_SPEED) below the top.
TallScreenH == 43
CarW == 1
CarH == 1
ObstacleW == 1
ObstacleH == 1
OtherCarW == 1
OtherCarH == 1
BulletW == 1
BulletH == 1
NumObstacles == 1
NumOpponents == 1
\* The opponents of the games with several opponents in one lane.
VolleyOpponents == 2
\* Spec follows the game up to this score, and the fire key held for at
\* most this many iterations in a row.
MaxScore == 2
MaxHeld == 1
\* SpecRamp follows the game up to this score.
RampMaxScore == 10
\* The score up to which the game with the long climb is followed: the next
\* pickup is the twelfth that adds to game_speed.
ClimbMaxScore == 119
\* SpecFire follows the fire key held for this many iterations more than
\* fire_rate.
FireExtraHeld == 1
\* A stopped game scrolls its opponents upwards for ever (OtherCar.move_down
\* with step 0): they are followed this many rows above the spawn area.
MaxDrift == 1
\* SpecOverlap: the coordinates and the sizes of the two elements.
MaxCoord == 2
MaxSize == 2

VARIABLES
    window_width,   \* Game.window_width
    window_height,  \* Game.window_height
    car,            \* Game.car: [x, y, speed, show_explosion, fire_count]
    bullets,        \* Car.bullets: sequence of [x, y]
    obstacles,      \* Game.obstacles: sequence of [x, y]
    opponents,      \* Game.opponents: sequence of [x, y, show_explosion]
    game_speed,     \* Game.game_speed
    score,          \* Game.score
    reset_pressed,  \* what Game._reset_pressed returned in the last iteration
    fired,          \* whether Car.fire_bullet made a Bullet in the last iteration
    held,           \* iterations in a row, up to the last, in which the fire
                    \* key was down and the car not exploded in fire_bullet
    probe           \* SpecOverlap: two elements and what overlaps_with returned

vars == <<window_width, window_height, car, bullets, obstacles, opponents,
          game_speed, score, reset_pressed, fired, held, probe>>

\* ------------------------------------------------------------------------
\* Helpers

\* Python's int() of n/2: truncation towards zero.
IntHalf(n) == IF n >= 0 THEN n \div 2 ELSE -((-n) \div 2)

Max(a, b) == IF a >= b THEN a ELSE b
Min(a, b) == IF a <= b THEN a ELSE b

\* Python's range(lo, hi) as a set.
Range(lo, hi) == lo .. (hi - 1)

\* The sequences whose i-th element is drawn from sets[i].
RECURSIVE Product(_, _)
Product(sets, n) ==
    IF n = 0 THEN {<<>>}
    ELSE {Append(p, e) : p \in Product(sets, n - 1), e \in sets[n]}

\* list.remove of the i-th element.
RemoveAt(seq, i) == SubSeq(seq, 1, i - 1) \o SubSeq(seq, i + 1, Len(seq))

\* ------------------------------------------------------------------------
\* Element

\* Element.width / Element.height of each kind of element.
Size(kind) ==
    CASE kind = "Car" -> [w |-> CarW, h |-> CarH]
      [] kind = "Obstacle" -> [w |-> ObstacleW, h |-> ObstacleH]
      [] kind = "OtherCar" -> [w |-> OtherCarW, h |-> OtherCarH]
      [] kind = "Bullet" -> [w |-> BulletW, h |-> BulletH]

\* The position and the size of an element of a kind.
Box(e, kind) == [x |-> e.x, y |-> e.y, w |-> Size(kind).w, h |-> Size(kind).h]

\* overlaps_with with the far edges counted in: what C6 rules out.
overlaps_with_inclusive(a, b) ==
    LET x_overlaps == (a.x .. a.x + a.w) \cap (b.x .. b.x + b.w)
        y_overlaps == (a.y .. a.y + a.h) \cap (b.y .. b.y + b.h)
    IN  x_overlaps # {} /\ y_overlaps # {}

\* Element.overlaps_with: the pixel columns and the pixel rows of the two
\* elements both have a pixel in common.
overlaps_with(a, b) ==
    LET x_overlaps == Range(a.x, a.x + a.w) \cap Range(b.x, b.x + b.w)
        y_overlaps == Range(a.y, a.y + a.h) \cap Range(b.y, b.y + b.h)
    IN  x_overlaps # {} /\ y_overlaps # {}

\* move_right without the clamp to the right border: what C5 rules out.
move_right_unclamped(e, step, screen) == [e EXCEPT !.x = e.x + step]

\* Element.move_up .. move_right of an element with respect_borders = True
\* (the car), on a screen [width, height].
move_up(e, step) == [e EXCEPT !.y = Max(0, e.y - step)]
move_down(e, step, screen) == [e EXCEPT !.y = Min(screen.height - CarH, e.y + step)]
move_left(e, step) == [e EXCEPT !.x = Max(0, e.x - step)]
move_right(e, step, screen) == [e EXCEPT !.x = Min(screen.width - CarW, e.x + step)]

\* Element.center_horizontally
center_horizontally(e, screen) == [e EXCEPT !.x = IntHalf(screen.width - CarW)]

\* Element.has_left_screen
has_left_screen(e, h) == e.y - h <= 0

\* Element.move as Car.move calls it: the pressed arrow keys in the order
\* up, down, left, right.
move(e, k, step, screen) ==
    LET e1 == IF k.up THEN move_up(e, step) ELSE e
        e2 == IF k.down THEN move_down(e1, step, screen) ELSE e1
        e3 == IF k.left THEN move_left(e2, step) ELSE e2
    IN  IF k.right THEN move_right(e3, step, screen) ELSE e3

\* ------------------------------------------------------------------------
\* Obstacle, OtherCar

\* Obstacle.get_random_x_position / get_random_y_position: every value
\* random.randrange can return, for an element w wide / h high.
get_random_x_position(w, screen) == Range(0, screen.width - w)
get_random_y_position(h, screen) == Range(-screen.height, -h)

\* The positions the two calls above give an element of a kind.
RandomPositions(kind, screen) ==
    {[x |-> x, y |-> y] :
        x \in get_random_x_position(Size(kind).w, screen),
        y \in get_random_y_position(Size(kind).h, screen)}

\* Element.move_down of an Obstacle (respect_borders = False).
ObstacleMoveDown(o, step) == [o EXCEPT !.y = o.y + step]

\* OtherCar.move_down: one less than the step.
OtherCarMoveDown(o, step) == [o EXCEPT !.y = o.y + (step - 1)]

\* Obstacle.draw: an obstacle below the window gets a random position.
ObstacleDraw(o, screen) ==
    IF o.y >= screen.height
    THEN {[o EXCEPT !.x = p.x, !.y = p.y] : p \in RandomPositions("Obstacle", screen)}
    ELSE {o}

\* OtherCar.draw that leaves the opponent exploded: what C14 rules out.
OtherCarDraw_stays_exploded(o, screen) ==
    IF o.y >= screen.height
    THEN {[o EXCEPT !.x = p.x, !.y = p.y] :
            p \in RandomPositions("OtherCar", screen)}
    ELSE {o}

\* OtherCar.draw: an opponent below the window is unexploded and gets a
\* random position.
OtherCarDraw(o, screen) ==
    IF o.y >= screen.height
    THEN {[o EXCEPT !.x = p.x, !.y = p.y, !.show_explosion = FALSE] :
            p \in RandomPositions("OtherCar", screen)}
    ELSE {o}

\* ------------------------------------------------------------------------
\* Car

\* Car.init_car_position: centre, then move down from where the car is.
init_car_position(c, screen) ==
    move_down(center_horizontally(c, screen),
              screen.height - CarH - BOTTOM_MARGIN, screen)

\* Bullet.__init__: the position of a new bullet.
NewBullet(c) == [x |-> IntHalf(2 * c.x + CarW), y |-> c.y]

\* Bullet.draw: the bullet moves up by the car's speed + 5.
BulletDraw(b, c) == [b EXCEPT !.y = b.y - (c.speed + BULLET_EXTRA_SPEED)]

\* Car.draw: `for bullet in self.bullets` with self.bullets.remove(bullet)
\* in its body.  The list iterator keeps an index: after a removal the
\* bullet that followed the removed one is skipped in this iteration.
RECURSIVE CarDraw(_, _, _)
CarDraw(bs, i, c) ==
    IF i > Len(bs) THEN bs
    ELSE LET b == BulletDraw(bs[i], c)
         IN  IF has_left_screen(b, BulletH)
             THEN CarDraw(RemoveAt(bs, i), i + 1, c)
             ELSE CarDraw([bs EXCEPT ![i] = b], i + 1, c)

\* ------------------------------------------------------------------------
\* The fields of the game as one record, and the steps of Game.run on it.

State ==
    [window_width |-> window_width, window_height |-> window_height,
     car |-> car, bullets |-> bullets, obstacles |-> obstacles,
     opponents |-> opponents, game_speed |-> game_speed, score |-> score,
     fired |-> fired]

\* Game.screen
Screen(s) == [width |-> s.window_width, height |-> s.window_height]

\* Game._move_static_objects
MoveStaticObjects(s) ==
    [s EXCEPT
        !.obstacles = [i \in DOMAIN s.obstacles |->
                          ObstacleMoveDown(s.obstacles[i], s.game_speed)],
        !.opponents = [i \in DOMAIN s.opponents |->
                          OtherCarMoveDown(s.opponents[i], s.game_speed)]]

\* Game._draw_statis_objects
DrawStaticObjects(s) ==
    {[s EXCEPT !.obstacles = obs, !.opponents = ops] :
        obs \in Product([i \in DOMAIN s.obstacles |->
                            ObstacleDraw(s.obstacles[i], Screen(s))],
                        Len(s.obstacles)),
        ops \in Product([i \in DOMAIN s.opponents |->
                            OtherCarDraw(s.opponents[i], Screen(s))],
                        Len(s.opponents))}

\* `if self.game_speed > 0: self.car.move()`
CarMove(s, k) ==
    IF s.game_speed > 0
    THEN [s EXCEPT !.car = move(s.car, k, s.car.speed, Screen(s))]
    ELSE s

\* self.car.draw()
DrawCar(s) == [s EXCEPT !.bullets = CarDraw(s.bullets, 1, s.car)]

\* fire_bullet of a car that fires exploded or not: what C18 rules out.
fire_bullet_while_exploded(s, k) ==
    IF k.space
    THEN IF s.car.fire_count % fire_rate = 0
         THEN [s EXCEPT !.bullets = Append(s.bullets, NewBullet(s.car)),
                        !.car.fire_count = 0 + 1]
         ELSE [s EXCEPT !.car.fire_count = s.car.fire_count + 1]
    ELSE [s EXCEPT !.car.fire_count = 0]

\* fire_bullet that leaves fire_count at 0 after a shot: what C8 rules out.
fire_bullet_every_tick(s, k) ==
    IF k.space /\ ~s.car.show_explosion
    THEN IF s.car.fire_count % fire_rate = 0
         THEN [s EXCEPT !.bullets = Append(s.bullets, NewBullet(s.car)),
                        !.car.fire_count = 0]
         ELSE [s EXCEPT !.car.fire_count = s.car.fire_count + 1]
    ELSE [s EXCEPT !.car.fire_count = 0]

\* Car.fire_bullet
fire_bullet(s, k) ==
    IF k.space /\ ~s.car.show_explosion
    THEN IF s.car.fire_count % fire_rate = 0
         THEN [s EXCEPT !.bullets = Append(s.bullets, NewBullet(s.car)),
                        !.car.fire_count = 0 + 1]
         ELSE [s EXCEPT !.car.fire_count = s.car.fire_count + 1]
    ELSE [s EXCEPT !.car.fire_count = 0]

\* self.car.fire_bullet(), and whether it made a Bullet.
FireStep(s, k) ==
    LET t == fire_bullet(s, k)
    IN  [t EXCEPT !.fired = Len(t.bullets) > Len(s.bullets)]

\* bullets_hit_opponent without the test of opponent.exploded(): what C7
\* rules out.
RECURSIVE bullets_hit_opponent_again(_, _, _)
bullets_hit_opponent_again(s, b, o) ==
    IF b > Len(s.bullets) THEN s
    ELSE IF o > Len(s.opponents) THEN bullets_hit_opponent_again(s, b + 1, 1)
    ELSE IF overlaps_with(Box(s.bullets[b], "Bullet"), Box(s.opponents[o], "OtherCar"))
         THEN bullets_hit_opponent_again(
                [s EXCEPT !.opponents[o].show_explosion = TRUE,
                          !.score = s.score + HIT_SCORE], b, o + 1)
         ELSE bullets_hit_opponent_again(s, b, o + 1)

\* Car.bullets_hit_opponent: for each bullet, for each opponent, from the
\* b-th bullet and the o-th opponent on.
RECURSIVE bullets_hit_opponent(_, _, _)
bullets_hit_opponent(s, b, o) ==
    IF b > Len(s.bullets) THEN s
    ELSE IF o > Len(s.opponents) THEN bullets_hit_opponent(s, b + 1, 1)
    ELSE IF /\ overlaps_with(Box(s.bullets[b], "Bullet"), Box(s.opponents[o], "OtherCar"))
            /\ ~s.opponents[o].show_explosion
         THEN bullets_hit_opponent(
                [s EXCEPT !.opponents[o].show_explosion = TRUE,
                          !.score = s.score + HIT_SCORE], b, o + 1)
         ELSE bullets_hit_opponent(s, b, o + 1)

\* _fuel_tank_collected that collects nothing while the car overlaps a
\* non-exploded opponent: what C17 rules out.
RECURSIVE fuel_tank_collected_unless_hit(_, _)
fuel_tank_collected_unless_hit(s, i) ==
    IF i > Len(s.obstacles) THEN {s}
    ELSE IF /\ overlaps_with(Box(s.car, "Car"), Box(s.obstacles[i], "Obstacle"))
            /\ ~\E o \in DOMAIN s.opponents :
                  /\ ~s.opponents[o].show_explosion
                  /\ overlaps_with(Box(s.car, "Car"), Box(s.opponents[o], "OtherCar"))
         THEN LET sc == s.score + FUEL_SCORE
                  gs == IF sc % SPEED_UP_EVERY = 0 THEN s.game_speed + 1 ELSE s.game_speed
              IN  UNION {fuel_tank_collected_unless_hit(
                            [s EXCEPT !.obstacles[i].x = p.x, !.obstacles[i].y = p.y,
                                      !.score = sc, !.game_speed = gs], i + 1) :
                            p \in RandomPositions("Obstacle", Screen(s))}
         ELSE fuel_tank_collected_unless_hit(s, i + 1)

\* _fuel_tank_collected that gives a collected obstacle a new x only: what
\* C10 rules out.
RECURSIVE fuel_tank_collected_keeps_y(_, _)
fuel_tank_collected_keeps_y(s, i) ==
    IF i > Len(s.obstacles) THEN {s}
    ELSE IF overlaps_with(Box(s.car, "Car"), Box(s.obstacles[i], "Obstacle"))
         THEN LET sc == s.score + FUEL_SCORE
                  gs == IF sc % SPEED_UP_EVERY = 0 THEN s.game_speed + 1 ELSE s.game_speed
              IN  UNION {fuel_tank_collected_keeps_y(
                            [s EXCEPT !.obstacles[i].x = p.x,
                                      !.score = sc, !.game_speed = gs], i + 1) :
                            p \in RandomPositions("Obstacle", Screen(s))}
         ELSE fuel_tank_collected_keeps_y(s, i + 1)

\* Game._fuel_tank_collected: for each obstacle, from the i-th on.
RECURSIVE fuel_tank_collected(_, _)
fuel_tank_collected(s, i) ==
    IF i > Len(s.obstacles) THEN {s}
    ELSE IF overlaps_with(Box(s.car, "Car"), Box(s.obstacles[i], "Obstacle"))
         THEN LET sc == s.score + FUEL_SCORE
                  gs == IF sc % SPEED_UP_EVERY = 0 THEN s.game_speed + 1 ELSE s.game_speed
              IN  UNION {fuel_tank_collected(
                            [s EXCEPT !.obstacles[i].x = p.x, !.obstacles[i].y = p.y,
                                      !.score = sc, !.game_speed = gs], i + 1) :
                            p \in RandomPositions("Obstacle", Screen(s))}
         ELSE fuel_tank_collected(s, i + 1)

\* Game.reset
reset(s) ==
    {[s EXCEPT !.car = [init_car_position(s.car, Screen(s)) EXCEPT
                           !.speed = CAR_SPEED, !.show_explosion = FALSE],
               !.game_speed = GAME_SPEED,
               !.obstacles = obs,
               !.opponents = [i \in DOMAIN s.opponents |->
                                 [s.opponents[i] EXCEPT !.show_explosion = FALSE]]] :
        obs \in Product([i \in DOMAIN s.obstacles |->
                            RandomPositions("Obstacle", Screen(s))],
                        Len(s.obstacles))}

\* _opponent_hit over all the opponents, exploded or not: what C1 rules out.
opponent_hit_any(s) ==
    \E o \in DOMAIN s.opponents :
        overlaps_with(Box(s.car, "Car"), Box(s.opponents[o], "OtherCar"))

\* Game._opponent_hit
opponent_hit(s) ==
    LET non_exploded_opponents ==
            {o \in DOMAIN s.opponents : ~s.opponents[o].show_explosion}
    IN  \E o \in non_exploded_opponents :
            overlaps_with(Box(s.car, "Car"), Box(s.opponents[o], "OtherCar"))

\* Game.stop that leaves the car its speed: what C19 rules out.
stop_keeps_car_speed(s) ==
    [s EXCEPT !.game_speed = 0, !.car.show_explosion = TRUE]

\* Game.stop, followed by `self.car.explode()`
stop(s) ==
    [s EXCEPT !.car.speed = 0, !.game_speed = 0, !.car.show_explosion = TRUE]

\* The reset key without `self.score = 0`: what C4 rules out.
ResetStep_keeps_score(s, k) == IF k.r THEN reset(s) ELSE {s}

\* `if self._reset_pressed(): self.reset(); self.score = 0`
ResetStep(s, k) == IF k.r THEN {[t EXCEPT !.score = 0] : t \in reset(s)} ELSE {s}

\* `if self._opponent_hit(): ...`
HitStep(s) == IF opponent_hit(s) THEN stop(s) ELSE s

\* The states before the bullets are tested against the opponents.
BeforeBulletsHit(s, k) ==
    {FireStep(DrawCar(CarMove(m, k)), k) : m \in DrawStaticObjects(MoveStaticObjects(s))}

\* The states before the fuel tanks are tested against the car.
BeforeFuel(s, k) == {bullets_hit_opponent(m, 1, 1) : m \in BeforeBulletsHit(s, k)}

\* The states before the reset key is tested.
BeforeReset(s, k) == UNION {fuel_tank_collected(m, 1) : m \in BeforeFuel(s, k)}

\* The states before the collision with an opponent is tested.
BeforeHit(s, k) == UNION {ResetStep(m, k) : m \in BeforeReset(s, k)}

\* The states after the movement of the obstacles, the opponents and the
\* car.
AfterMove(s, k) == {CarMove(m, k) : m \in DrawStaticObjects(MoveStaticObjects(s))}

\* The rest of the iteration from a state before the fuel tanks are tested.
FromFuel(m, k) ==
    {HitStep(r) : r \in UNION {ResetStep(f, k) : f \in fuel_tank_collected(m, 1)}}

\* The rest of the iteration from a state after the movement.
FromMove(m, k) == FromFuel(bullets_hit_opponent(FireStep(DrawCar(m), k), 1, 1), k)

\* One iteration of the loop of Game.run.
RunIteration(s, k) == {HitStep(m) : m \in BeforeHit(s, k)}

\* ------------------------------------------------------------------------
\* Specifications

NoKeys == [up |-> FALSE, down |-> FALSE, left |-> FALSE, right |-> FALSE,
           space |-> FALSE, r |-> FALSE]

\* The key states of Spec: one key at a time.
Keys ==
    {NoKeys,
     [NoKeys EXCEPT !.up = TRUE], [NoKeys EXCEPT !.down = TRUE],
     [NoKeys EXCEPT !.left = TRUE], [NoKeys EXCEPT !.right = TRUE],
     [NoKeys EXCEPT !.space = TRUE], [NoKeys EXCEPT !.r = TRUE]}

\* The key states of SpecRamp: the fire key alone.
RampKeys == {NoKeys, [NoKeys EXCEPT !.space = TRUE]}

\* The key states of SpecFire: the fire key, and left and right.
FireKeys ==
    {NoKeys, [NoKeys EXCEPT !.space = TRUE],
     [NoKeys EXCEPT !.left = TRUE], [NoKeys EXCEPT !.right = TRUE]}

\* SpecOverlap: the elements overlaps_with is called on.
Elements ==
    [x : 0 .. MaxCoord, y : 0 .. MaxCoord, w : 0 .. MaxSize, h : 0 .. MaxSize]

NoProbe ==
    [done |-> FALSE, element_1 |-> [x |-> 0, y |-> 0, w |-> 0, h |-> 0],
     element_2 |-> [x |-> 0, y |-> 0, w |-> 0, h |-> 0],
     forth |-> FALSE, back |-> FALSE]

\* Game.__init__ with a window of the given size and so many obstacles and
\* opponents: the car centred at the bottom margin, every obstacle and
\* opponent at a random position above the window.
InitGameOf(width, height, num_obstacles, num_opponents) ==
    LET screen == [width |-> width, height |-> height]
    IN  /\ window_width = width
        /\ window_height = height
        /\ car = init_car_position([x |-> 0, y |-> 0, speed |-> CAR_SPEED,
                                    show_explosion |-> FALSE, fire_count |-> 0],
                                   screen)
        /\ bullets = <<>>
        /\ obstacles \in Product([i \in 1 .. num_obstacles |->
                                    RandomPositions("Obstacle", screen)],
                                 num_obstacles)
        /\ opponents \in Product([i \in 1 .. num_opponents |->
                                    {[x |-> p.x, y |-> p.y, show_explosion |-> FALSE] :
                                        p \in RandomPositions("OtherCar", screen)}],
                                 num_opponents)
        /\ game_speed = GAME_SPEED
        /\ score = 0
        /\ reset_pressed = FALSE
        /\ fired = FALSE
        /\ held = 0

InitGame(width, height) == InitGameOf(width, height, NumObstacles, NumOpponents)

\* The iterations a specification follows: up to a score, with the fire
\* key held so long, and a stopped game so far up.
Followed(k, maxScore, maxHeld) ==
    /\ score <= maxScore
    /\ k.space => held < maxHeld
    /\ (game_speed = 0 /\ ~k.r) =>
          \A o \in DOMAIN opponents :
              opponents[o].y > -(window_height + MaxDrift)

\* One iteration of the loop of Game.run with the keys k.
Tick(k) ==
    /\ \E s \in RunIteration(State, k) :
          /\ car' = s.car
          /\ bullets' = s.bullets
          /\ obstacles' = s.obstacles
          /\ opponents' = s.opponents
          /\ game_speed' = s.game_speed
          /\ score' = s.score
          /\ fired' = s.fired
    /\ reset_pressed' = k.r
    /\ held' = IF k.space /\ ~car.show_explosion THEN held + 1 ELSE 0
    /\ UNCHANGED <<window_width, window_height, probe>>

Init == InitGame(ScreenW, ScreenH) /\ probe = NoProbe

Next == \E k \in Keys : Followed(k, MaxScore, MaxHeld) /\ Tick(k)

Spec == Init /\ [][Next]_vars

\* SpecRamp: the car stays where it is and fires; the score climbs.
NextRamp == \E k \in RampKeys : Followed(k, RampMaxScore, MaxHeld) /\ Tick(k)

SpecRamp == Init /\ [][NextRamp]_vars

\* SpecFire: the car only moves sideways and the fire key is held long; the
\* game is followed until it scores.
NextFire == \E k \in FireKeys : Followed(k, 0, fire_rate + FireExtraHeld) /\ Tick(k)

SpecFire == Init /\ [][NextFire]_vars

\* SpecVolley: several opponents come down the lane of the car, which stays
\* where it is and fires; the game is followed until it scores.
InitVolley ==
    /\ InitGameOf(ScreenW, ScreenH, NumObstacles, VolleyOpponents)
    /\ probe = NoProbe

NextVolley == \E k \in RampKeys : Followed(k, 0, MaxHeld) /\ Tick(k)

SpecVolley == InitVolley /\ [][NextVolley]_vars

\* SpecTall: a tall window, in which the car stays where it is and fires;
\* the game is followed until it scores.
InitTall == InitGame(ScreenW, TallScreenH) /\ probe = NoProbe

NextTall == \E k \in RampKeys : Followed(k, 0, MaxHeld) /\ Tick(k)

SpecTall == InitTall /\ [][NextTall]_vars

\* The random draws that SpecClimb follows: an obstacle that gets a new
\* position (it goes up) gets the one a scroll step above the window, and an
\* opponent that gets one gets the top of its spawn area.
ClimbDraws ==
    /\ \A i \in DOMAIN obstacles :
          obstacles'[i].y < obstacles[i].y => obstacles'[i].y = -game_speed'
    /\ \A o \in DOMAIN opponents :
          (game_speed > 0 /\ opponents'[o].y < opponents[o].y) =>
              opponents'[o].y = -window_height

\* The games that SpecClimb follows: stopped, or with every tenth point of
\* the score so far made by a pickup, which added to game_speed.
ClimbOnPace ==
    game_speed = 0 \/ game_speed = GAME_SPEED + (score \div SPEED_UP_EVERY)

\* SpecClimb: SpecRamp with the score followed much further, for those
\* games and random draws.
NextClimb ==
    \E k \in RampKeys :
        /\ Followed(k, ClimbMaxScore, MaxHeld)
        /\ ClimbOnPace
        /\ Tick(k)
        /\ ClimbDraws

SpecClimb == Init /\ [][NextClimb]_vars

\* SpecOverlap: overlaps_with on any two elements, both ways round.  The
\* game is the one whose obstacles and opponents start in the top left
\* corner of the spawn area, and it does not run.
InitOverlap ==
    /\ InitGame(ScreenW, ScreenH)
    /\ \A i \in DOMAIN obstacles : obstacles[i].x = 0 /\ obstacles[i].y = -ScreenH
    /\ \A o \in DOMAIN opponents : opponents[o].x = 0 /\ opponents[o].y = -ScreenH
    /\ \E a \in Elements, b \in Elements :
          probe = [NoProbe EXCEPT !.element_1 = a, !.element_2 = b]

CallOverlaps ==
    /\ ~probe.done
    /\ probe' = [probe EXCEPT
                    !.done = TRUE,
                    !.forth = overlaps_with(probe.element_1, probe.element_2),
                    !.back = overlaps_with(probe.element_2, probe.element_1)]
    /\ UNCHANGED <<window_width, window_height, car, bullets, obstacles, opponents,
                   game_speed, score, reset_pressed, fired, held>>

NextOverlap == CallOverlaps

SpecOverlap == InitOverlap /\ [][NextOverlap]_vars

\* ------------------------------------------------------------------------
\* What the claims are stated with

\* The half-open intervals [lo1, hi1) and [lo2, hi2) intersect.
Intersect(lo1, hi1, lo2, hi2) == Max(lo1, lo2) < Min(hi1, hi2)

\* The boxes a and b intersect on both axes.
BoxesIntersect(a, b) ==
    /\ Intersect(a.x, a.x + a.w, b.x, b.x + b.w)
    /\ Intersect(a.y, a.y + a.h, b.y, b.y + b.h)

\* The box of the car overlaps the box of a non-exploded opponent.
Colliding ==
    \E o \in DOMAIN opponents :
        /\ ~opponents[o].show_explosion
        /\ BoxesIntersect(Box(car, "Car"), Box(opponents[o], "OtherCar"))

\* The spawn area of an element of a kind.
InSpawnArea(e, kind) ==
    /\ 0 <= e.x /\ e.x < window_width - Size(kind).w
    /\ -window_height <= e.y /\ e.y < -Size(kind).h

\* ------------------------------------------------------------------------
\* C1: at the end of an iteration the game has been stopped by the
\* collision check exactly when the car's box overlaps a non-exploded
\* opponent: then game_speed is 0, car.speed is 0 and the car is exploded;
\* otherwise the speeds and the explosion are what the iteration had before
\* the check (the baseline after a reset, else those of the last iteration).
C1_CollisionStops ==
    [][IF Colliding'
       THEN game_speed' = 0 /\ car'.speed = 0 /\ car'.show_explosion
       ELSE /\ car'.speed = (IF reset_pressed' THEN CAR_SPEED ELSE car.speed)
            /\ car'.show_explosion = (~reset_pressed' /\ car.show_explosion)
            /\ (game_speed' = 0) = (~reset_pressed' /\ game_speed = 0)]_vars

C1_Witness == Colliding /\ game_speed = 0 /\ car.speed = 0 /\ car.show_explosion

\* C2 as claimed: at the end of an iteration in which the reset key is down
\* the game runs at the baseline speeds with score 0, and neither the car
\* nor any opponent is exploded.
C2_ResetOverrides ==
    reset_pressed =>
        /\ game_speed = GAME_SPEED /\ car.speed = CAR_SPEED /\ score = 0
        /\ ~car.show_explosion
        /\ \A o \in DOMAIN opponents : ~opponents[o].show_explosion

\* C3 as claimed: while the game runs, the scroll speed is the baseline plus
\* one for every ten points of the score.
C3_SpeedFollowsScore ==
    game_speed > 0 => game_speed = GAME_SPEED + (score \div SPEED_UP_EVERY)

\* C4: the score does not decrease in an iteration without the reset key,
\* and is 0 at the end of an iteration with it.
C4_ScoreMonotone ==
    [][IF reset_pressed' THEN score' = 0 ELSE score' >= score]_vars

C4_Witness == ~reset_pressed /\ score > 0

C6_OverlapIsIntersection ==
    probe.done =>
        /\ probe.forth = BoxesIntersect(probe.element_1, probe.element_2)
        /\ probe.back = probe.forth
        /\ probe.element_1.x + probe.element_1.w = probe.element_2.x => ~probe.forth

C6_Witness ==
    /\ probe.done
    /\ probe.element_1.x + probe.element_1.w = probe.element_2.x
    /\ probe.element_1.w > 0 /\ probe.element_2.w > 0
    /\ Intersect(probe.element_1.y, probe.element_1.y + probe.element_1.h,
                 probe.element_2.y, probe.element_2.y + probe.element_2.h)

\* The opponents of the state m that are not exploded and that a bullet of m
\* overlaps.
Struck(m) ==
    {o \in DOMAIN m.opponents :
        /\ ~m.opponents[o].show_explosion
        /\ \E b \in DOMAIN m.bullets :
              BoxesIntersect(Box(m.bullets[b], "Bullet"), Box(m.opponents[o], "OtherCar"))}

\* C7: in the hit resolution of any iteration, every non-exploded opponent
\* that a bullet overlaps becomes exploded and adds 2 to the score once; an
\* opponent that is already exploded stays so and adds nothing, whatever
\* overlaps it.
C7_HitScoresOnce ==
    \A k \in Keys : \A m \in BeforeBulletsHit(State, k) :
        LET after == bullets_hit_opponent(m, 1, 1)
        IN  /\ after.score = m.score + HIT_SCORE * Cardinality(Struck(m))
            /\ \A o \in DOMAIN m.opponents :
                  after.opponents[o].show_explosion =
                      (m.opponents[o].show_explosion \/ o \in Struck(m))

\* An exploded opponent is overlapped by a bullet at the hit resolution.
C7_Witness ==
    \E k \in Keys : \E m \in BeforeBulletsHit(State, k) :
        \E o \in DOMAIN m.opponents, b \in DOMAIN m.bullets :
            /\ m.opponents[o].show_explosion
            /\ BoxesIntersect(Box(m.bullets[b], "Bullet"), Box(m.opponents[o], "OtherCar"))

\* C8: with the fire key held and the car not exploded, a bullet is made in
\* the first iteration and in every fire_rate-th after it, and in no other.
C8_OneBulletPerFireRate ==
    fired = (held >= 1 /\ (held - 1) % fire_rate = 0)

C8_Witness == fired /\ held = fire_rate + 1

\* C9 as claimed: at the end of an iteration no bullet of the car has y <= 0.
C9_NoBulletAtTop == \A b \in DOMAIN bullets : bullets[b].y > 0

\* The obstacles of the state m that the car overlaps.
Touched(m) ==
    {i \in DOMAIN m.obstacles :
        BoxesIntersect(Box(m.car, "Car"), Box(m.obstacles[i], "Obstacle"))}

\* C10: in the pickup check of any iteration, every obstacle the car
\* overlaps is moved into the spawn area and adds 1 to the score; the other
\* obstacles stay where they are and add nothing.
C10_PickupRespawnsAndScores ==
    \A k \in Keys : \A m \in BeforeFuel(State, k) : \A after \in fuel_tank_collected(m, 1) :
        /\ after.score = m.score + FUEL_SCORE * Cardinality(Touched(m))
        /\ \A i \in DOMAIN m.obstacles :
              IF i \in Touched(m)
              THEN /\ 0 <= after.obstacles[i].x
                   /\ after.obstacles[i].x < window_width - ObstacleW
                   /\ -window_height <= after.obstacles[i].y
                   /\ after.obstacles[i].y < -ObstacleH
              ELSE after.obstacles[i] = m.obstacles[i]

C10_Witness == \E k \in Keys : \E m \in BeforeFuel(State, k) : Touched(m) # {}

\* C11 as claimed: at the end of an iteration in which the reset key is down
\* every obstacle and every opponent is in its spawn area, above the window.
C11_ResetRespawnsAll ==
    reset_pressed =>
        /\ \A i \in DOMAIN obstacles : InSpawnArea(obstacles[i], "Obstacle")
        /\ \A o \in DOMAIN opponents : InSpawnArea(opponents[o], "OtherCar")

\* The position the car has after Game.__init__.
InitialCarPosition ==
    [x |-> IntHalf(window_width - CarW), y |-> window_height - CarH - BOTTOM_MARGIN]

\* C12 as claimed: at the end of an iteration in which the reset key is down
\* the car is at the position it had after construction.
C12_ResetRestoresCar ==
    reset_pressed =>
        car.x = InitialCarPosition.x /\ car.y = InitialCarPosition.y

\* The hit resolution of the state m after the first n bullets of the list:
\* the outer loop of Car.bullets_hit_opponent, stopped there.
RECURSIVE AfterBullets(_, _)
AfterBullets(m, n) ==
    IF n = 0 THEN m
    ELSE LET upto == AfterBullets(m, n - 1)
             alone == [upto EXCEPT !.bullets = <<m.bullets[n]>>]
         IN  [bullets_hit_opponent(alone, 1, 1) EXCEPT !.bullets = m.bullets]

\* C13 as claimed: in the hit resolution of any iteration, one bullet makes
\* at most one opponent explode and adds 2 to the score at most once.
C13_OneHitPerBullet ==
    \A k \in RampKeys : \A m \in BeforeBulletsHit(State, k) :
        \A b \in DOMAIN m.bullets :
            LET before == AfterBullets(m, b - 1)
                after == AfterBullets(m, b)
                exploded_by_b == {o \in DOMAIN m.opponents :
                                     /\ ~before.opponents[o].show_explosion
                                     /\ after.opponents[o].show_explosion}
            IN  /\ Cardinality(exploded_by_b) <= 1
                /\ after.score - before.score <= HIT_SCORE

\* C14: at the end of every iteration every obstacle and every opponent has
\* 0 <= x < window_width - width and y < window_height; an obstacle or an
\* opponent that the movement of the iteration took to y >= window_height
\* ends it with y in [-window_height, -height), and such an opponent ends it
\* not exploded.
C14_RespawnOnExit ==
    [][/\ \A i \in DOMAIN obstacles' :
             /\ 0 <= obstacles'[i].x /\ obstacles'[i].x < window_width - ObstacleW
             /\ obstacles'[i].y < window_height
             /\ ObstacleMoveDown(obstacles[i], game_speed).y >= window_height =>
                   /\ -window_height <= obstacles'[i].y
                   /\ obstacles'[i].y < -ObstacleH
       /\ \A o \in DOMAIN opponents' :
             /\ 0 <= opponents'[o].x /\ opponents'[o].x < window_width - OtherCarW
             /\ opponents'[o].y < window_height
             /\ OtherCarMoveDown(opponents[o], game_speed).y >= window_height =>
                   /\ -window_height <= opponents'[o].y
                   /\ opponents'[o].y < -OtherCarH
                   /\ ~opponents'[o].show_explosion]_vars

\* An exploded opponent is at the bottom of the window, where the movement
\* of an iteration takes it out, and the game runs on.
C14_Witness ==
    /\ score <= MaxScore
    /\ \E o \in DOMAIN opponents :
          /\ opponents[o].show_explosion
          /\ opponents[o].y < window_height
          /\ OtherCarMoveDown(opponents[o], game_speed).y >= window_height

\* C15 as claimed: every bullet of the car at the end of an iteration, but
\* the one made in it, is a bullet of its start moved up by the speed the
\* car had plus 5.
C15_BulletsMoveUp ==
    [][\A b \in 1 .. (Len(bullets') - (IF fired' THEN 1 ELSE 0)) :
           \E a \in DOMAIN bullets : bullets'[b] = BulletDraw(bullets[a], car)]_vars

\* C16 as claimed: an iteration without the reset key that starts with the
\* game stopped (game_speed 0) leaves every obstacle and every opponent
\* where it was.
C16_StoppedIsFrozen ==
    [][(game_speed = 0 /\ ~reset_pressed') =>
          /\ \A i \in DOMAIN obstacles :
                obstacles'[i].x = obstacles[i].x /\ obstacles'[i].y = obstacles[i].y
          /\ \A o \in DOMAIN opponents :
                opponents'[o].x = opponents[o].x /\ opponents'[o].y = opponents[o].y]_vars

\* C18: an iteration without the reset key that starts with the game stopped
\* ends with it stopped: game_speed and car.speed are 0, the car is exploded
\* and where it was, whatever keys are down, and no bullet was made.
C18_StoppedUntilReset ==
    [][(game_speed = 0 /\ ~reset_pressed') =>
          /\ game_speed' = 0 /\ car'.speed = 0 /\ car'.show_explosion
          /\ car'.x = car.x /\ car'.y = car.y
          /\ ~fired' /\ Len(bullets') <= Len(bullets)]_vars

\* The game is stopped after an iteration without the reset key, and the
\* opponent that stopped it no longer overlaps the car: the game was stopped
\* before that iteration as well.
C18_Witness == game_speed = 0 /\ ~reset_pressed /\ ~Colliding

\* C19: at the end of every iteration game_speed is 0 exactly when car.speed
\* is 0 and exactly when the car is exploded; if they are not, game_speed is
\* at least GAME_SPEED and car.speed is CAR_SPEED.
C19_StopIndicatorsAgree ==
    /\ (game_speed = 0) = (car.speed = 0)
    /\ (car.speed = 0) = car.show_explosion
    /\ game_speed # 0 => (game_speed >= GAME_SPEED /\ car.speed = CAR_SPEED)

\* The game is stopped at the end of an iteration that reset it.
C19_Witness == reset_pressed /\ game_speed = 0 /\ car.speed = 0 /\ car.show_explosion

\* The car of the state m overlaps a non-exploded opponent of m.
CollidingIn(m) ==
    \E o \in DOMAIN m.opponents :
        /\ ~m.opponents[o].show_explosion
        /\ BoxesIntersect(Box(m.car, "Car"), Box(m.opponents[o], "OtherCar"))

\* C17 as claimed: in an iteration without the reset key in which, after the
\* movement, the car overlaps an obstacle and a non-exploded opponent, the
\* score goes up by the pickup and the game ends the iteration stopped.
C17_PickupAndCollision ==
    \A k \in Keys : ~k.r =>
        \A m \in AfterMove(State, k) :
            (Touched(m) # {} /\ CollidingIn(m)) =>
                \A end \in FromMove(m, k) :
                    /\ end.score >= m.score + FUEL_SCORE * Cardinality(Touched(m))
                    /\ end.game_speed = 0 /\ end.car.speed = 0
                    /\ end.car.show_explosion

\* C17, amended: in an iteration without the reset key in which, after the
\* hit resolution, the car overlaps an obstacle and an opponent that is
\* still not exploded, the pickup check adds 1 to the score for each
\* obstacle overlapped and the game ends the iteration stopped.
C17_PickupAndCollisionAfterHits ==
    \A k \in Keys : ~k.r =>
        \A m \in BeforeFuel(State, k) :
            (Touched(m) # {} /\ CollidingIn(m)) =>
                \A end \in FromFuel(m, k) :
                    /\ end.score = m.score + FUEL_SCORE * Cardinality(Touched(m))
                    /\ end.game_speed = 0 /\ end.car.speed = 0
                    /\ end.car.show_explosion

\* The car overlaps an obstacle and a non-exploded opponent after the hit
\* resolution of an iteration without the reset key.
C17_Witness ==
    \E k \in Keys :
        /\ ~k.r
        /\ \E m \in BeforeFuel(State, k) : Touched(m) # {} /\ CollidingIn(m)

\* C20 as claimed: game_speed is never more than MAX_SPEED.
C20_SpeedCapped == game_speed <= MAX_SPEED

====
